---------------------------- MODULE Spec2Model ----------------------------
(***************************************************************************)
(* Model of the lesson seeding pipeline of scripts/auto_generate_content.py *)
(* (heythampi_back): the Seeding Orchestrator main(), the context          *)
(* accept/reject loop with its near-duplicate check, the Conversation      *)
(* Parser, and the relational store it writes (app/models).                *)
(*                                                                         *)
(* Text.  A line of text is a sequence of tokens.  A token is either a     *)
(* word or the whitespace token " "; neighbouring words are separated by a *)
(* single blank that is not written.  str.lower() maps tokens, str.strip() *)
(* drops leading and trailing whitespace tokens, str.split() drops every   *)
(* whitespace token.  A raw generator response is a sequence of lines      *)
(* (str.splitlines()).                                                     *)
(***************************************************************************)
EXTENDS Integers, Sequences, FiniteSets, TLC

VARIABLES
    \* ---- the relational store (tables as sequences of rows, id = index)
    sections,      \* Section rows      [slug, order_index]
    units,         \* Unit rows         [section_id, slug, order_index]
    lessons,       \* Lesson rows       [unit_id, slug, order_index, summary]
    contexts,      \* MemeContext rows  [lesson_id, level, pairs]; level is the
                   \* column migration fd00100e0e54 adds to meme_contexts
    questions,     \* QuizQuestion rows [lesson_id, meme_context_id, order_index]
    answers,       \* QuizAnswer rows, grouped: the question ids whose answers are stored
    \* ---- the running process: the locals of main, its position pc and the
    \*      exception that ended it
    m,
    \* ---- history of the runs (not read by the program)
    h,
    \* ---- the dedup check applied to drawn inputs (specification SpecDedup)
    d_pc, d_pairs, d_used, d_result,
    \* ---- parse_dialogue_context applied to a drawn text (SpecParse)
    parse,
    \* ---- one call of generate_conversation (SpecClient)
    client,
    \* ---- one call of build_questions_for_context (SpecSynth)
    synth,
    \* ---- one pass of the loop body of build_questions_for_context on
    \*      drawn inputs (SpecDraft)
    draft,
    \* ---- the loop of build_questions_for_context with its retry loop on
    \*      used_questions (SpecLoop)
    loop,
    \* ---- calls of build_cinema_dialogue_prompt (SpecPrompt)
    cinema

storeVars == <<sections, units, lessons, contexts, questions, answers>>
dedupVars == <<d_pc, d_pairs, d_used, d_result>>
fnVars == <<parse, client, synth, draft, loop, cinema>>
vars == <<storeVars, m, h, dedupVars, fnVars>>

-----------------------------------------------------------------------------
(* Bounds of the model *)

\* runs of main() in one behaviour
MaxRuns == 2
\* runs that are killed before they end
MaxInterrupts == 1
\* pairs of a candidate context drawn for the dedup check
MaxCand == 3
\* accepted contexts drawn for the dedup check
MaxUsed == 2
\* lines of a generated text in SpecParse
MaxLines == 4
\* largest max_retries of a call in SpecClient
MaxRetries == 4

(* Program constants *)

max_context_attempts == 5
NumLevels == 3
QuestionsPerContext == 12
OrderingPerContext == 3
CompleteContexts == 3
CompleteQuestions == 36

-----------------------------------------------------------------------------
(* Text *)

WS == " "

LowerTok(t) ==
    CASE t = "Hello" -> "hello"
      [] t = "How"   -> "how"
      [] t = "Bye"   -> "bye"
      [] OTHER       -> t

\* str.lower()
Lower(line) == [i \in DOMAIN line |-> LowerTok(line[i])]

RECURSIVE LStrip(_)
LStrip(line) ==
    IF line = <<>> THEN <<>>
    ELSE IF Head(line) = WS THEN LStrip(Tail(line)) ELSE line

RECURSIVE RStrip(_)
RStrip(line) ==
    IF line = <<>> THEN <<>>
    ELSE IF line[Len(line)] = WS THEN RStrip(SubSeq(line, 1, Len(line) - 1)) ELSE line

\* str.strip()
Strip(line) == RStrip(LStrip(line))

IsWord(t) == t # WS

\* str.split()
Split(line) == SelectSeq(line, IsWord)

-----------------------------------------------------------------------------
(* Conversation Parser *)

IsNonBlank(line) == Strip(line) # <<>>

StripLine(line) == Strip(line)

\* the kept lines as written, without l.strip()
NonBlankLinesUntrimmed(raw_text) == SelectSeq(raw_text, IsNonBlank)

\* lines = [l.strip() for l in raw_text.strip().splitlines() if l.strip()]
NonBlankLines(raw_text) ==
    LET kept == SelectSeq(raw_text, IsNonBlank)
    IN  [i \in DOMAIN kept |-> StripLine(kept[i])]

RECURSIVE PairUp(_, _)
PairUp(lines, i) ==
    IF i > Len(lines) THEN <<>>
    ELSE LET en == lines[i]
             ml == IF i + 1 <= Len(lines) THEN lines[i + 1] ELSE <<>>
         IN  (IF en # <<>> /\ ml # <<>> THEN << <<en, ml>> >> ELSE <<>>)
             \o PairUp(lines, i + 2)

parse_dialogue_context(raw_text) == PairUp(NonBlankLines(raw_text), 1)

\* format_context_as_markdown: a header line naming the level, then for the
\* i-th pair a numbered source line and an emphasised target line
format_context_as_markdown(ps, level) ==
    << [tag |-> "header", n |-> 0, text |-> <<level>>] >>
    \o [k \in 1..(2 * Len(ps)) |->
          IF k % 2 = 1
          THEN [tag |-> "en", n |-> (k + 1) \div 2, text |-> ps[(k + 1) \div 2][1]]
          ELSE [tag |-> "ml", n |-> k \div 2, text |-> ps[k \div 2][2]]]

-----------------------------------------------------------------------------
(* Deduplication Engine: the uniqueness check of main *)

\* the source lines compared as written, without lower()
SourceLinesCaseSensitive(ps) == {Strip(ps[i][1]) : i \in DOMAIN ps}

\* set([en.lower().strip() for en, ml in pairs])
SourceLines(ps) == {Strip(Lower(ps[i][1])) : i \in DOMAIN ps}

\* a threshold of one half instead of 0.3
OverlapExceedsHalf(overlap, n) == 2 * overlap > n

\* overlap > len(current_lines) * 0.3, in tenths: the float product of an int
\* below 200 with 0.3 orders against ints as 3 * n / 10 does
OverlapExceeds(overlap, n) == 10 * overlap > 3 * n

\* the for loop over used_contexts, in whatever order the set is iterated,
\* leaving at the first context that overlaps too much
RECURSIVE DuplicateLoop(_, _)
DuplicateLoop(current_lines, remaining) ==
    IF remaining = {} THEN FALSE
    ELSE LET used_ctx   == CHOOSE u \in remaining : TRUE
             used_lines == SourceLines(used_ctx)
             overlap    == Cardinality(current_lines \cap used_lines)
         IN  IF OverlapExceeds(overlap, Cardinality(current_lines))
             THEN TRUE
             ELSE DuplicateLoop(current_lines, remaining \ {used_ctx})

is_duplicate(ps, used) == DuplicateLoop(SourceLines(ps), used)

-----------------------------------------------------------------------------
(* Question Synthesizer: the chunks of an ordering question and the       *)
(* order_index its answers are stored with                                *)

Levels == <<"beginner", "intermediate", "advanced">>

\* random.choice([2, 3]) / ([3, 4]) / ([4, 5])
ChunkSizes(level) ==
    IF level = "beginner" THEN {2, 3}
    ELSE IF level = "intermediate" THEN {3, 4}
    ELSE {4, 5}

\* [' '.join(words[i:i+chunk_size]) for i in range(0, len(words), chunk_size)]
RECURSIVE ChunkWords(_, _)
ChunkWords(words, chunk_size) ==
    IF words = <<>> THEN <<>>
    ELSE IF Len(words) <= chunk_size THEN <<words>>
    ELSE <<SubSeq(words, 1, chunk_size)>>
         \o ChunkWords(SubSeq(words, chunk_size + 1, Len(words)), chunk_size)

\* a list of words as a list of one-word chunks
WordChunks(words) == [i \in DOMAIN words |-> <<words[i]>>]

\* the first pair of the context whose source line has at least 3 words
RECURSIVE FirstLongLine(_, _)
FirstLongLine(ps, i) ==
    IF i > Len(ps) THEN <<>>
    ELSE IF Len(Split(ps[i][1])) >= 3 THEN Split(ps[i][1])
    ELSE FirstLongLine(ps, i + 1)

\* the chunks of the ordering branch for the chosen sentence and chunk size
OrderingChunks(sentence_to_use, chunk_size, ps) ==
    LET words == Split(sentence_to_use)
    IN  IF Len(words) >= chunk_size * 2 THEN ChunkWords(words, chunk_size)
        ELSE IF Len(words) >= 3 THEN WordChunks(words)
        ELSE LET alt_words == FirstLongLine(ps, 1)
             IN  IF alt_words # <<>> THEN WordChunks(alt_words)
                 ELSE IF Len(words) >= 2 THEN WordChunks(words)
                 ELSE <<words>>

\* correct_order.index(chunk): the first position holding the chunk, from 0
IndexOf(seq, x) == (CHOOSE i \in DOMAIN seq : seq[i] = x /\ \A j \in 1..(i - 1) : seq[j] # x) - 1

\* the order_index values of the answers of an ordering question; the
\* translate fallback of a question with fewer than 2 chunks has one answer
OrderingOrderIndexes(chunks) ==
    IF Len(chunks) < 2 THEN <<0>>
    ELSE [i \in DOMAIN chunks |-> IndexOf(chunks, chunks[i])]

\* the answers of the other question types carry no order_index: a_idx is used
EnumeratedOrderIndexes(n) == [i \in 1..n |-> i - 1]

\* the order_index lists an ordering question of this context can be stored with
OrderingDrafts(ps, level) ==
    {OrderingOrderIndexes(OrderingChunks(ps[i][1], cs, ps)) :
        i \in DOMAIN ps, cs \in ChunkSizes(level)}

-----------------------------------------------------------------------------
(* The content hierarchy walked by main.  The run is configured by         *)
(* CONFIG["test_mode"]; the model runs main with TEST_MODE=true, where it  *)
(* walks one section, one unit and one lesson.                             *)

test_mode == TRUE

SECTION_TOPICS ==
    <<"daily life", "travel", "food", "school and friends", "health",
      "internet and slang", "shopping", "work and job", "family",
      "festivals and culture">>

\* the rows of the first two sections
UNIT_TOPICS_PER_SECTION ==
    << <<"greetings", "introductions", "small talk", "farewell", "gratitude",
         "asking for help", "inviting">>,
       <<"bus and train", "directions", "booking tickets", "at the station",
         "checking in", "asking locals", "travel problems">> >>

\* topic.replace(" ", "-"), on the topics the walk reaches
Slugify(topic) ==
    CASE topic = "daily life"      -> "daily-life"
      [] topic = "small talk"      -> "small-talk"
      [] topic = "asking for help" -> "asking-for-help"
      [] topic = "bus and train"   -> "bus-and-train"
      [] OTHER                     -> topic

\* f"{unit.slug}-lesson-{lesson_idx+1}"
LessonSlug(unit_slug, idx) == <<unit_slug, "lesson", idx + 1>>

\* num_sections = 1 if CONFIG["test_mode"] else len(SECTION_TOPICS)
num_sections == IF test_mode THEN 1 ELSE Len(SECTION_TOPICS)

\* lessons_per_unit = 1 if CONFIG["test_mode"] else 5
lessons_per_unit == IF test_mode THEN 1 ELSE 5

\* num_units = 1 if CONFIG["test_mode"] else len(unit_topics)
num_units(unit_topics) == IF test_mode THEN 1 ELSE Len(unit_topics)

-----------------------------------------------------------------------------
(* The generator: what one call of generate_conversation can hand to main  *)

TextA == << <<"Hello", "there">>, <<"hai">>, <<WS>>,
            <<"how", "are", "you">>, <<"sukhamano">> >>

TextB == << <<WS, "hello", "there">>, <<"hai">>,
            <<"see", "you">>, <<"kaanam">>, <<"bye">> >>

TextC == << <<"no", "no", "way">>, <<"illa">>,
            <<"come", "here", WS>>, <<"vaa">> >>

TextShort == << <<"Hello">>, <<"hai">>, <<"bye">> >>

TextEmpty == << <<WS>> >>

GenTexts == {TextA, TextB, TextC, TextShort, TextEmpty}

\* generate_conversation either raises or returns the text of the response
GenOutcomes == {[kind |-> "raise", text |-> <<>>]}
               \cup {[kind |-> "text", text |-> t] : t \in GenTexts}

-----------------------------------------------------------------------------
(* The store *)

\* session.query(Section).filter(Section.slug == section_slug)
SectionsBySlug(slug) == {i \in DOMAIN sections : sections[i].slug = slug}

\* session.query(Unit).filter(Unit.section_id == ..., Unit.slug == ...)
UnitsBySlug(section_id, slug) ==
    {i \in DOMAIN units : units[i].section_id = section_id /\ units[i].slug = slug}

\* session.query(Lesson).filter(Lesson.unit_id == ..., Lesson.slug == ...)
LessonsBySlug(unit_id, slug) ==
    {i \in DOMAIN lessons : lessons[i].unit_id = unit_id /\ lessons[i].slug = slug}

\* .one_or_none(): the row, or 0 for None
OneOrNone(ids) == IF ids = {} THEN 0 ELSE CHOOSE i \in ids : TRUE

\* session.query(MemeContext).filter(MemeContext.lesson_id == ...).count()
ContextCount(lesson_id) ==
    Cardinality({i \in DOMAIN contexts : contexts[i].lesson_id = lesson_id})

\* session.query(QuizQuestion).filter(QuizQuestion.lesson_id == ...).count()
QuestionCount(lesson_id) ==
    Cardinality({i \in DOMAIN questions : questions[i].lesson_id = lesson_id})

\* the completeness test with > for >=
IsCompleteStrict(context_count, question_count) ==
    context_count > CompleteContexts /\ question_count > CompleteQuestions

\* context_count >= 3 and question_count >= 36
IsComplete(context_count, question_count) ==
    context_count >= CompleteContexts /\ question_count >= CompleteQuestions

\* the level loop without the query: no level is taken to have a context
ExistingContextNotQueried(lesson_id, level) == FALSE

\* the query counting only a context that has a question
ExistingContextWithQuestions(lesson_id, level) ==
    \E i \in DOMAIN contexts :
        /\ contexts[i].lesson_id = lesson_id /\ contexts[i].level = level
        /\ \E q \in DOMAIN questions : questions[q].meme_context_id = i

\* the query for a context of the lesson at the level, .first()
ExistingContext(lesson_id, level) ==
    \E i \in DOMAIN contexts :
        contexts[i].lesson_id = lesson_id /\ contexts[i].level = level

\* unique=True on sections.slug
SectionConflict(row) == \E i \in DOMAIN sections : sections[i].slug = row.slug

\* uq_unit_order, uq_unit_slug
UnitConflict(row) ==
    \E i \in DOMAIN units :
        /\ units[i].section_id = row.section_id
        /\ (units[i].slug = row.slug \/ units[i].order_index = row.order_index)

\* uq_lesson_order, uq_lesson_slug
LessonConflict(row) ==
    \E i \in DOMAIN lessons :
        /\ lessons[i].unit_id = row.unit_id
        /\ (lessons[i].slug = row.slug \/ lessons[i].order_index = row.order_index)

\* the constraint declared on (meme_context_id, order_index) instead
QuestionConflictPerContext(row) ==
    \E i \in DOMAIN questions :
        /\ questions[i].meme_context_id = row.meme_context_id
        /\ questions[i].order_index = row.order_index

\* uq_question_order: UniqueConstraint("lesson_id", "order_index")
QuestionConflict(row) ==
    \E i \in DOMAIN questions :
        /\ questions[i].lesson_id = row.lesson_id
        /\ questions[i].order_index = row.order_index

\* uq_answer_order: UniqueConstraint("question_id", "order_index"), on the
\* answers of one question, which are inserted by one commit
AnswerConflict(order_indexes) ==
    \E i, j \in DOMAIN order_indexes : i # j /\ order_indexes[i] = order_indexes[j]

-----------------------------------------------------------------------------
(* main *)

Running == {"section", "unit", "lesson", "level", "gen", "ctx", "question",
            "answers", "summary"}

Ended == {"idle", "done", "aborted", "interrupted"}

\* the locals of a process that is not running
NoLocals ==
    [pc |-> "idle", abort_cause |-> "none",
     section_idx |-> 0, unit_idx |-> 0, lesson_idx |-> 0,
     section |-> 0, unit |-> 0, lesson |-> 0,
     context_idx |-> 0, attempt |-> 0, pairs |-> <<>>,
     used_contexts |-> {}, all_markdown_contexts |-> <<>>,
     total_questions_generated |-> 0, mctx |-> 0, q_idx |-> 0, qq |-> 0,
     ord_left |-> 0]

NoHistory ==
    [run_no |-> 0, interrupts |-> 0, run_created |-> FALSE, same_inputs |-> TRUE,
     requested1 |-> {}, gen_good |-> TRUE, dup_count |-> 0, fail_count |-> 0]

\* an exception leaves main through the finally clause: the process ends
Raised(cause) == [NoLocals EXCEPT !.pc = "aborted", !.abort_cause = cause]

Slot == <<m.section_idx, m.unit_idx, m.lesson_idx, m.context_idx>>

\* "\n\n---\n\n".join(all_markdown_contexts)
RECURSIVE JoinBlocks(_)
JoinBlocks(blocks) ==
    IF blocks = <<>> THEN <<>>
    ELSE IF Len(blocks) = 1 THEN blocks[1]
    ELSE blocks[1] \o << [tag |-> "---", n |-> 0, text |-> <<>>] >> \o JoinBlocks(Tail(blocks))

\* no test at all
TooShortNever(ps) == FALSE

\* the test without its length part
TooShortEmptyOnly(ps) == ps = <<>>

\* not pairs or len(pairs) < 2
TooShort(ps) == ps = <<>> \/ Len(ps) < 2

\* the last attempt taken to be attempt number max_context_attempts
LastAttemptOffByOne(a) == a = max_context_attempts

\* attempt == max_context_attempts - 1
LastAttempt(a) == a = max_context_attempts - 1

\* session = SessionLocal(); used_contexts = set()
StartRun ==
    /\ m.pc \in Ended
    /\ h.run_no < MaxRuns
    /\ m' = [NoLocals EXCEPT !.pc = "section"]
    /\ h' = [h EXCEPT !.run_no = @ + 1, !.run_created = FALSE, !.same_inputs = TRUE,
                      !.gen_good = TRUE, !.dup_count = 0, !.fail_count = 0]
    /\ UNCHANGED <<storeVars, dedupVars, fnVars>>

\* for section_idx in range(num_sections): look the section up, create it if absent
VisitSection ==
    /\ m.pc = "section"
    /\ UNCHANGED <<units, lessons, contexts, questions, answers, dedupVars, fnVars>>
    /\ IF m.section_idx >= num_sections
       THEN /\ m' = [NoLocals EXCEPT !.pc = "done"]
            /\ UNCHANGED <<sections, h>>
       ELSE LET section_topic == SECTION_TOPICS[m.section_idx + 1]
                section_slug  == Slugify(section_topic)
                found         == SectionsBySlug(section_slug)
                row           == [slug |-> section_slug, order_index |-> m.section_idx]
            IN  IF Cardinality(found) > 1
                THEN m' = Raised("MultipleResultsFound") /\ UNCHANGED <<sections, h>>
                ELSE IF OneOrNone(found) # 0
                THEN /\ m' = [m EXCEPT !.section = OneOrNone(found),
                                       !.unit_idx = 0, !.pc = "unit"]
                     /\ UNCHANGED <<sections, h>>
                ELSE IF SectionConflict(row)
                THEN m' = Raised("sections_slug_key") /\ UNCHANGED <<sections, h>>
                ELSE /\ sections' = Append(sections, row)
                     /\ h' = [h EXCEPT !.run_created = TRUE]
                     /\ m' = [m EXCEPT !.section = Len(sections) + 1,
                                       !.unit_idx = 0, !.pc = "unit"]

\* for unit_idx, unit_slug in enumerate(unit_topics[:num_units])
VisitUnit ==
    /\ m.pc = "unit"
    /\ UNCHANGED <<sections, lessons, contexts, questions, answers, dedupVars, fnVars>>
    /\ LET unit_topics == UNIT_TOPICS_PER_SECTION[m.section_idx + 1]
       IN  IF m.unit_idx >= num_units(unit_topics)
           THEN /\ m' = [m EXCEPT !.section_idx = @ + 1, !.pc = "section"]
                /\ UNCHANGED <<units, h>>
           ELSE LET unit_slug_clean == Slugify(unit_topics[m.unit_idx + 1])
                    found == UnitsBySlug(m.section, unit_slug_clean)
                    row   == [section_id |-> m.section, slug |-> unit_slug_clean,
                              order_index |-> m.unit_idx]
                IN  IF Cardinality(found) > 1
                    THEN m' = Raised("MultipleResultsFound") /\ UNCHANGED <<units, h>>
                    ELSE IF OneOrNone(found) # 0
                    THEN /\ m' = [m EXCEPT !.unit = OneOrNone(found),
                                           !.lesson_idx = 0, !.pc = "lesson"]
                         /\ UNCHANGED <<units, h>>
                    ELSE IF UnitConflict(row)
                    THEN m' = Raised("uq_unit") /\ UNCHANGED <<units, h>>
                    ELSE /\ units' = Append(units, row)
                         /\ h' = [h EXCEPT !.run_created = TRUE]
                         /\ m' = [m EXCEPT !.unit = Len(units) + 1,
                                           !.lesson_idx = 0, !.pc = "lesson"]

\* for lesson_idx in range(lessons_per_unit): skip a complete lesson, resume
\* an incomplete one, create an absent one
VisitLesson ==
    /\ m.pc = "lesson"
    /\ UNCHANGED <<sections, units, contexts, questions, answers, dedupVars, fnVars>>
    /\ IF m.lesson_idx >= lessons_per_unit
       THEN /\ m' = [m EXCEPT !.unit_idx = @ + 1, !.pc = "unit"]
            /\ UNCHANGED <<lessons, h>>
       ELSE LET lesson_slug == LessonSlug(units[m.unit].slug, m.lesson_idx)
                found == LessonsBySlug(m.unit, lesson_slug)
                existing_lesson == OneOrNone(found)
                row == [unit_id |-> m.unit, slug |-> lesson_slug,
                        order_index |-> m.lesson_idx, summary |-> <<>>]
                enter(id) == [m EXCEPT !.lesson = id, !.context_idx = 0,
                                       !.all_markdown_contexts = <<>>,
                                       !.total_questions_generated = 0,
                                       !.pc = "level"]
            IN  IF Cardinality(found) > 1
                THEN m' = Raised("MultipleResultsFound") /\ UNCHANGED <<lessons, h>>
                ELSE IF existing_lesson # 0
                THEN /\ IF IsComplete(ContextCount(existing_lesson),
                                      QuestionCount(existing_lesson))
                        THEN m' = [m EXCEPT !.lesson_idx = @ + 1]
                        ELSE m' = enter(existing_lesson)
                     /\ UNCHANGED <<lessons, h>>
                ELSE IF LessonConflict(row)
                THEN m' = Raised("uq_lesson") /\ UNCHANGED <<lessons, h>>
                ELSE /\ lessons' = Append(lessons, row)
                     /\ h' = [h EXCEPT !.run_created = TRUE]
                     /\ m' = enter(Len(lessons) + 1)

\* for context_idx, context_level in enumerate(levels_to_generate): a level
\* that has a context is passed over; after the last level the summary
VisitLevel ==
    /\ m.pc = "level"
    /\ UNCHANGED <<storeVars, dedupVars, fnVars>>
    /\ IF m.context_idx >= NumLevels
       THEN /\ m' = [m EXCEPT !.pc = "summary"]
            /\ h' = [h EXCEPT !.dup_count = 0, !.fail_count = 0]
       ELSE IF ExistingContext(m.lesson, Levels[m.context_idx + 1])
       THEN /\ m' = [m EXCEPT !.context_idx = @ + 1]
            /\ h' = [h EXCEPT !.dup_count = 0, !.fail_count = 0]
       ELSE /\ m' = [m EXCEPT !.attempt = 0, !.pairs = <<>>, !.pc = "gen"]
            /\ h' = [h EXCEPT !.dup_count = 0, !.fail_count = 0]

\* one pass of for attempt in range(max_context_attempts), and, when the
\* loop is left, the check that follows it
GenAttempt ==
    /\ m.pc = "gen"
    /\ UNCHANGED <<storeVars, dedupVars, fnVars>>
    /\ \E out \in GenOutcomes :
         LET parsed    == parse_dialogue_context(out.text)
             raised    == out.kind = "raise"
             failed    == raised \/ TooShort(parsed)
             new_pairs == IF raised THEN m.pairs ELSE parsed
             dup       == ~failed /\ is_duplicate(parsed, m.used_contexts)
             accept    == ~failed /\ (~dup \/ LastAttempt(m.attempt))
             leave     == accept \/ m.attempt + 1 >= max_context_attempts
             new_used  == IF accept THEN m.used_contexts \cup {parsed}
                          ELSE m.used_contexts
             \* history: an attempt that raised or parsed to fewer than 2 pairs
             no_context == raised \/ Len(parsed) < 2
             hist      == [h EXCEPT
                            !.gen_good = @ /\ (h.run_no = 1 \/ (~no_context /\ ~dup)),
                            !.dup_count = IF dup THEN @ + 1 ELSE @,
                            !.fail_count = IF no_context THEN @ + 1 ELSE @,
                            !.requested1 = IF h.run_no = 1 THEN @ \cup {Slot} ELSE @,
                            !.same_inputs = @ /\ (h.run_no = 1 \/ Slot \notin h.requested1)]
         IN  /\ h' = hist
             /\ IF ~leave
                THEN m' = [m EXCEPT !.pairs = new_pairs, !.attempt = @ + 1]
                ELSE IF TooShort(new_pairs)
                THEN m' = [m EXCEPT !.pairs = new_pairs, !.used_contexts = new_used,
                                    !.context_idx = @ + 1, !.pc = "level"]
                ELSE m' = [m EXCEPT !.pairs = new_pairs, !.used_contexts = new_used,
                                    !.pc = "ctx"]

\* the context row is added and committed, then the 12 questions are built
CreateContext ==
    /\ m.pc = "ctx"
    /\ UNCHANGED <<sections, units, lessons, questions, answers, dedupVars, fnVars>>
    /\ LET context_level    == Levels[m.context_idx + 1]
           markdown_context == format_context_as_markdown(m.pairs, context_level)
           row == [lesson_id |-> m.lesson, level |-> context_level, pairs |-> m.pairs]
       IN  /\ contexts' = Append(contexts, row)
           /\ m' = [m EXCEPT !.all_markdown_contexts = Append(@, markdown_context),
                             !.mctx = Len(contexts) + 1,
                             !.q_idx = 0,
                             !.ord_left = OrderingPerContext,
                             !.pc = "question"]
           /\ h' = [h EXCEPT !.run_created = TRUE]

\* for q_idx, qset in enumerate(questions): the question row is added and committed
CommitQuestion ==
    /\ m.pc = "question"
    /\ UNCHANGED <<sections, units, lessons, contexts, answers, dedupVars, fnVars>>
    /\ LET row == [lesson_id |-> m.lesson, meme_context_id |-> m.mctx,
                   order_index |-> m.total_questions_generated + m.q_idx]
       IN  IF QuestionConflict(row)
           THEN m' = Raised("uq_question_order") /\ UNCHANGED <<questions, h>>
           ELSE /\ questions' = Append(questions, row)
                /\ m' = [m EXCEPT !.qq = Len(questions) + 1, !.pc = "answers"]
                /\ h' = [h EXCEPT !.run_created = TRUE]

\* the answers of the question are added and committed together; the question
\* is one of the 3 ordering questions of the shuffled plan or one of the 9 others
CommitAnswers ==
    /\ m.pc = "answers"
    /\ UNCHANGED <<sections, units, lessons, contexts, questions, dedupVars, fnVars>>
    /\ \E ordering \in BOOLEAN :
         /\ ordering => m.ord_left > 0
         /\ ~ordering => (QuestionsPerContext - m.q_idx) - m.ord_left > 0
         /\ \E order_indexes \in
                 IF ordering THEN OrderingDrafts(m.pairs, Levels[m.context_idx + 1])
                 ELSE {EnumeratedOrderIndexes(n) : n \in 1..4} :
              IF AnswerConflict(order_indexes)
              THEN m' = Raised("uq_answer_order") /\ UNCHANGED <<answers, h>>
              ELSE /\ answers' = answers \cup {m.qq}
                   /\ h' = [h EXCEPT !.run_created = TRUE]
                   /\ IF m.q_idx + 1 < QuestionsPerContext
                      THEN m' = [m EXCEPT !.q_idx = @ + 1,
                                          !.ord_left = IF ordering THEN @ - 1 ELSE @,
                                          !.pc = "question"]
                      ELSE m' = [m EXCEPT !.q_idx = 0, !.ord_left = 0,
                                          !.total_questions_generated = @ + QuestionsPerContext,
                                          !.context_idx = @ + 1,
                                          !.pc = "level"]

\* if all_markdown_contexts: lesson.summary = ...; session.commit()
UpdateSummary ==
    /\ m.pc = "summary"
    /\ UNCHANGED <<sections, units, contexts, questions, answers, h, dedupVars, fnVars>>
    /\ IF m.all_markdown_contexts # <<>>
       THEN lessons' = [lessons EXCEPT
                          ![m.lesson].summary = JoinBlocks(m.all_markdown_contexts)]
       ELSE UNCHANGED lessons
    /\ m' = [m EXCEPT !.lesson_idx = @ + 1, !.pc = "lesson"]

\* the process is killed; what was committed stays, the rest is lost
Interrupt ==
    /\ m.pc \in Running
    /\ h.interrupts < MaxInterrupts
    /\ m' = [NoLocals EXCEPT !.pc = "interrupted"]
    /\ h' = [h EXCEPT !.interrupts = @ + 1, !.dup_count = 0, !.fail_count = 0]
    /\ UNCHANGED <<storeVars, dedupVars, fnVars>>

\* the values of the variables of a call that is not being made
NoParse == [pc |-> "off", raw_text |-> <<>>, pairs |-> <<>>]

NoClient ==
    [pc |-> "off", max_retries |-> 0, base_wait |-> 0, attempt |-> 0,
     requests |-> 0, sleeps |-> <<>>, failure |-> "none",
     last |-> "none", all429 |-> TRUE]

NoSynth ==
    [pc |-> "off", pairs |-> <<>>, level |-> "none",
     plan_left |-> <<>>, questions |-> <<>>, idx |-> 0, last_answers |-> 0]

NoLoop ==
    [pc |-> "off", pairs |-> <<>>, level |-> "none", plan_left |-> <<>>,
     used_questions |-> {}, qtype |-> "none", attempt |-> 0,
     en_ml_pair |-> << <<>>, <<>> >>, seen |-> {}]

NoCinema ==
    [pc |-> "off", level |-> "none", context_number |-> 0, num_lines |-> 0,
     variety_type |-> 0, requested |-> <<>>]

NoDraft ==
    [pc |-> "off", pairs |-> <<>>, level |-> "none", qtype |-> "none",
     q |-> [kind |-> "none", qtype |-> "none",
            prompt |-> [kind |-> "none", text |-> <<>>],
            answers |-> <<>>, en_ml_pair |-> << <<>>, <<>> >>,
            correct_order |-> <<>>]]

Init ==
    /\ sections = <<>> /\ units = <<>> /\ lessons = <<>>
    /\ contexts = <<>> /\ questions = <<>> /\ answers = {}
    /\ m = NoLocals
    /\ h = NoHistory
    /\ d_pc = "off" /\ d_pairs = <<>> /\ d_used = {} /\ d_result = FALSE
    /\ parse = NoParse /\ client = NoClient /\ synth = NoSynth /\ draft = NoDraft
    /\ loop = NoLoop /\ cinema = NoCinema

Next ==
    \/ StartRun
    \/ VisitSection
    \/ VisitUnit
    \/ VisitLesson
    \/ VisitLevel
    \/ GenAttempt
    \/ CreateContext
    \/ CommitQuestion
    \/ CommitAnswers
    \/ UpdateSummary
    \/ Interrupt

Spec == Init /\ [][Next]_vars

-----------------------------------------------------------------------------
(* The dedup check of main applied to drawn inputs *)

MlLine == <<"ml">>

DedupLines ==
    {<<"hello">>, <<"Hello">>, <<"how", "are", "you">>, <<"what's", "up">>,
     <<"see", "you">>, <<"bye">>}

PairOf(en) == <<en, MlLine>>

RECURSIVE SeqsUpTo(_, _)
SeqsUpTo(S, n) ==
    IF n = 0 THEN {<<>>}
    ELSE LET shorter == SeqsUpTo(S, n - 1)
         IN  shorter \cup {Append(q, x) : q \in shorter, x \in S}

\* candidate contexts: what parse_dialogue_context returned, of 1..MaxCand pairs
Candidates == {q \in SeqsUpTo({PairOf(l) : l \in DedupLines}, MaxCand) : q # <<>>}

\* contexts accepted earlier in the run
AcceptedPool ==
    {<<PairOf(<<"hello">>), PairOf(<<"how", "are", "you">>)>>,
     <<PairOf(<<"Hello">>), PairOf(<<"bye">>)>>,
     <<PairOf(<<"what's", "up">>), PairOf(<<"see", "you">>), PairOf(<<"bye">>)>>,
     <<PairOf(<<"see", "you">>), PairOf(<<"How", "are", "you">>)>>}

InitDedup ==
    /\ sections = <<>> /\ units = <<>> /\ lessons = <<>>
    /\ contexts = <<>> /\ questions = <<>> /\ answers = {}
    /\ m = NoLocals
    /\ h = NoHistory
    /\ d_pc = "ready"
    /\ d_pairs \in Candidates
    /\ d_used \in {U \in SUBSET AcceptedPool : Cardinality(U) <= MaxUsed}
    /\ d_result = FALSE
    /\ parse = NoParse /\ client = NoClient /\ synth = NoSynth /\ draft = NoDraft
    /\ loop = NoLoop /\ cinema = NoCinema

\* lines 626-635 of main on the drawn candidate and accepted contexts
DedupCheck ==
    /\ d_pc = "ready"
    /\ d_result' = is_duplicate(d_pairs, d_used)
    /\ d_pc' = "checked"
    /\ UNCHANGED <<storeVars, m, h, d_pairs, d_used, fnVars>>

NextDedup == DedupCheck

SpecDedup == InitDedup /\ [][NextDedup]_vars

-----------------------------------------------------------------------------
(* parse_dialogue_context applied to drawn texts *)

\* the lines a generated text is made of: empty, blank, one word, a padded
\* word, several words
ParseLines ==
    {<<>>, <<WS>>, <<"hai">>, <<WS, "Hello", WS>>, <<"how", WS, "are">>}

ParseTexts == SeqsUpTo(ParseLines, MaxLines)

\* everything but the call under study is at rest
MainAtRest ==
    /\ sections = <<>> /\ units = <<>> /\ lessons = <<>>
    /\ contexts = <<>> /\ questions = <<>> /\ answers = {}
    /\ m = NoLocals
    /\ h = NoHistory

DedupAtRest == d_pc = "off" /\ d_pairs = <<>> /\ d_used = {} /\ d_result = FALSE

InitParse ==
    /\ MainAtRest /\ DedupAtRest
    /\ client = NoClient /\ synth = NoSynth /\ draft = NoDraft
    /\ loop = NoLoop /\ cinema = NoCinema
    /\ \E raw_text \in ParseTexts :
          parse = [pc |-> "called", raw_text |-> raw_text, pairs |-> <<>>]

ParseCall ==
    /\ parse.pc = "called"
    /\ parse' = [parse EXCEPT !.pc = "returned",
                              !.pairs = parse_dialogue_context(parse.raw_text)]
    /\ UNCHANGED <<storeVars, m, h, dedupVars, client, synth, draft, loop, cinema>>

NextParse == ParseCall

SpecParse == InitParse /\ [][NextParse]_vars

-----------------------------------------------------------------------------
(* Generation Client: one call of generate_conversation *)

\* what a request can meet: the rate-limit status, another error status, a
\* failure of the transport (requests.post raises), a 200 whose payload has
\* no candidates, a 200 with a text
Responses == {"429", "500", "timeout", "no_candidates", "200"}

\* a linear backoff
WaitLinear(base_wait, attempt) == base_wait * (attempt + 1)

\* base_wait * (2 ** attempt)
Wait(base_wait, attempt) == base_wait * 2 ^ attempt

\* except requests.HTTPError, retrying whatever the status
HandleHTTPErrorRetry(status, attempt, max_retries) ==
    IF attempt < max_retries - 1 THEN "sleep" ELSE "raise"

\* except requests.HTTPError: sleep only for a 429 that is not the last
\* attempt, else re-raise
HandleHTTPError(status, attempt, max_retries) ==
    IF status = "429" /\ attempt < max_retries - 1 THEN "sleep" ELSE "raise"

\* the body of the try block for one response: what the loop does next
OnResponse(resp, attempt, max_retries) ==
    IF resp = "timeout" THEN "raise"           \* not an HTTPError: propagates
    ELSE IF resp = "429" THEN "sleep"          \* sleep, continue
    ELSE IF resp = "500" THEN HandleHTTPError(resp, attempt, max_retries)
    ELSE IF resp = "no_candidates" THEN "raise" \* KeyError: propagates
    ELSE "return"

\* the callers pass max_retries 3 (the default) and 1, base_wait 1800 and 600
InitClient ==
    /\ MainAtRest /\ DedupAtRest
    /\ parse = NoParse /\ synth = NoSynth /\ draft = NoDraft
    /\ loop = NoLoop /\ cinema = NoCinema
    /\ \E max_retries \in 0..MaxRetries, base_wait \in {1, 600, 1800} :
          client = [NoClient EXCEPT !.pc = "loop", !.max_retries = max_retries,
                                    !.base_wait = base_wait]

\* one pass of for attempt in range(max_retries)
ClientRequest ==
    /\ client.pc = "loop"
    /\ client.attempt < client.max_retries
    /\ \E resp \in Responses :
         LET todo == OnResponse(resp, client.attempt, client.max_retries)
             sent == [client EXCEPT !.requests = @ + 1, !.last = resp,
                                    !.all429 = @ /\ resp = "429"]
         IN  client' =
               IF todo = "sleep"
               THEN [sent EXCEPT !.sleeps = Append(@, Wait(client.base_wait, client.attempt)),
                                 !.attempt = @ + 1]
               ELSE IF todo = "return"
               THEN [sent EXCEPT !.pc = "returned"]
               ELSE [sent EXCEPT !.pc = "raised", !.failure = resp]
    /\ UNCHANGED <<storeVars, m, h, dedupVars, parse, synth, draft, loop, cinema>>

\* raise RuntimeError after the loop
ClientExhausted ==
    /\ client.pc = "loop"
    /\ client.attempt >= client.max_retries
    /\ client' = [client EXCEPT !.pc = "raised", !.failure = "RuntimeError"]
    /\ UNCHANGED <<storeVars, m, h, dedupVars, parse, synth, draft, loop, cinema>>

NextClient == ClientRequest \/ ClientExhausted

SpecClient == InitClient /\ [][NextClient]_vars

-----------------------------------------------------------------------------
(* Question Synthesizer: one pass of the loop body of                      *)
(* build_questions_for_context, by question type                           *)

QuestionTypes ==
    {"multiple_choice_single", "multiple_choice_multi", "true_false",
     "text_input", "ordering"}

\* question_plan before the shuffle, as the number of entries of each type
question_plan ==
    [t \in QuestionTypes |->
        IF t = "multiple_choice_single" THEN 3
        ELSE IF t = "ordering" THEN OrderingPerContext
        ELSE 2]

\* seq[:k]
Take(seq, k) == SubSeq(seq, 1, IF Len(seq) < k THEN Len(seq) ELSE k)

\* x in seq
InSeq(x, seq) == \E i \in DOMAIN seq : seq[i] = x

\* seq without its i-th element
Without(seq, i) == SubSeq(seq, 1, i - 1) \o SubSeq(seq, i + 1, Len(seq))

\* random.shuffle(seq): every arrangement of the list
RECURSIVE Shuffles(_)
Shuffles(seq) ==
    IF seq = <<>> THEN {<<>>}
    ELSE UNION {{<<seq[i]>> \o rest : rest \in Shuffles(Without(seq, i))} :
                   i \in DOMAIN seq}

\* an answer dict without the order_index key
Answer(text_en, text_ml, is_correct) ==
    [text_en |-> text_en, text_ml |-> text_ml, is_correct |-> is_correct,
     keyed |-> FALSE, order_index |-> 0]

\* an answer dict with the order_index key
OrderedAnswer(text_en, text_ml, order_index) ==
    [text_en |-> text_en, text_ml |-> text_ml, is_correct |-> TRUE,
     keyed |-> TRUE, order_index |-> order_index]

\* one entry of questions: the type, the prompt and the answers, with the
\* locals en_ml_pair and correct_order of the pass that made it
QuestionDraft(qtype, prompt_kind, prompt_text, answer_list, en_ml_pair, correct_order) ==
    [kind |-> "question", qtype |-> qtype,
     prompt |-> [kind |-> prompt_kind, text |-> prompt_text],
     answers |-> answer_list, en_ml_pair |-> en_ml_pair,
     correct_order |-> correct_order]

\* an entry of a branch that has no correct_order
Draft(qtype, prompt_kind, prompt_text, answer_list, en_ml_pair) ==
    QuestionDraft(qtype, prompt_kind, prompt_text, answer_list, en_ml_pair, <<>>)

\* an exception leaving the pass
RaisedDraft(qtype, exc) ==
    [kind |-> "raise", qtype |-> qtype,
     prompt |-> [kind |-> exc, text |-> <<>>],
     answers |-> <<>>, en_ml_pair |-> << <<>>, <<>> >>, correct_order |-> <<>>]

\* random.choice(pairs) if pairs else ("", ""): the retry loop on
\* used_questions accepts a drawn pair whose key is new and, on its 5th
\* attempt, any drawn pair, so every pair of the context can be the one kept
PairChoices(ps) ==
    IF ps = <<>> THEN {<< <<>>, <<>> >>} ELSE {ps[i] : i \in DOMAIN ps}

\* what generate_conversation gives when asked for wrong answers
WrongTexts ==
    {<< <<"w1">>, <<"w2">>, <<"w3">>, <<"w4">> >>,
     << <<"illa">>, <<WS, "w1">>, <<>>, <<"w1">>, <<"vida">> >>,
     << <<"Hello">>, <<"w2">> >>,
     <<>>}

WrongResponses ==
    {[kind |-> "raise", text |-> <<>>]} \cup {[kind |-> "text", text |-> t] : t \in WrongTexts}

\* generate_wrong_answers: the lines of the response, at most count of them;
\* no line when the call raised
generate_wrong_answers(response, count) ==
    IF response.kind = "raise" THEN <<>>
    ELSE Take(NonBlankLines(response.text), count)

\* [ml for (en, ml) in pairs if ml != en_ml_pair[1]]
RECURSIVE AvailableDistractors(_, _, _)
AvailableDistractors(ps, correct, i) ==
    IF i > Len(ps) THEN <<>>
    ELSE (IF ps[i][2] # correct THEN <<ps[i][2]>> ELSE <<>>)
         \o AvailableDistractors(ps, correct, i + 1)

\* for dist in available_distractors: append when new, stop at 3
RECURSIVE ContextDistractors(_, _, _)
ContextDistractors(available, selected, i) ==
    IF i > Len(available) THEN selected
    ELSE LET kept == IF ~InSeq(available[i], selected)
                     THEN Append(selected, available[i]) ELSE selected
         IN  IF Len(kept) >= 3 THEN kept
             ELSE ContextDistractors(available, kept, i + 1)

\* the test on a generated wrong answer without the comparison with the
\* correct answer
IsNewWrongUnchecked(wrong, selected, correct) == ~InSeq(wrong, selected)

\* wrong not in selected_distractors and wrong != en_ml_pair[1]
IsNewWrong(wrong, selected, correct) == ~InSeq(wrong, selected) /\ wrong # correct

\* for wrong in generated_wrong: append when new, stop at 3
RECURSIVE GeneratedDistractors(_, _, _, _)
GeneratedDistractors(generated_wrong, selected, correct, i) ==
    IF i > Len(generated_wrong) THEN selected
    ELSE LET kept == IF IsNewWrong(generated_wrong[i], selected, correct)
                     THEN Append(selected, generated_wrong[i]) ELSE selected
         IN  IF Len(kept) >= 3 THEN kept
             ELSE GeneratedDistractors(generated_wrong, kept, correct, i + 1)

\* the multiple_choice_single branch: corrects + distractors before the
\* shuffle
SingleChoiceOptions(ps, en_ml_pair, response) ==
    LET correct   == en_ml_pair[2]
        from_ctx  == IF Len(ps) > 1
                     THEN ContextDistractors(AvailableDistractors(ps, correct, 1), <<>>, 1)
                     ELSE <<>>
        selected_distractors ==
            IF Len(from_ctx) < 3
            THEN GeneratedDistractors(
                     generate_wrong_answers(response, 3 - Len(from_ctx)),
                     from_ctx, correct, 1)
            ELSE from_ctx
        shown     == Take(selected_distractors, 3)
    IN  <<Answer(correct, correct, TRUE)>>
        \o [i \in DOMAIN shown |-> Answer(shown[i], <<>>, FALSE)]

SingleChoiceDrafts(ps, en_ml_pair, responses) ==
    {Draft("multiple_choice_single", "meaning", en_ml_pair[1], all_opts, en_ml_pair) :
        all_opts \in UNION {Shuffles(SingleChoiceOptions(ps, en_ml_pair, response)) :
                               response \in responses}}

\* for (en, ml) in remaining_pairs: a phrase not used yet becomes a wrong
\* answer, stop at 2
RECURSIVE ContextWrong(_, _, _, _)
ContextWrong(remaining_pairs, selected_wrong, used_phrases, i) ==
    IF i > Len(remaining_pairs)
    THEN [selected_wrong |-> selected_wrong, used_phrases |-> used_phrases]
    ELSE LET en   == remaining_pairs[i][1]
             ml   == remaining_pairs[i][2]
             take == /\ Strip(Lower(en)) \notin used_phrases
                     /\ ~\E k \in DOMAIN selected_wrong : selected_wrong[k].text_en = en
             sel  == IF take THEN Append(selected_wrong, Answer(en, ml, FALSE))
                     ELSE selected_wrong
             used == IF take THEN used_phrases \cup {Strip(Lower(en))} ELSE used_phrases
         IN  IF Len(sel) >= 2 THEN [selected_wrong |-> sel, used_phrases |-> used]
             ELSE ContextWrong(remaining_pairs, sel, used, i + 1)

\* the test on a generated phrase, comparing it as written
IsNewPhraseAsWritten(phrase, used_phrases) == phrase \notin used_phrases

\* phrase.lower().strip() not in used_phrases
IsNewPhrase(phrase, used_phrases) == Strip(Lower(phrase)) \notin used_phrases

\* for phrase in generated[:needed]: a phrase not used yet becomes a wrong
\* answer, stop at 2
RECURSIVE GeneratedWrong(_, _, _, _)
GeneratedWrong(generated, selected_wrong, used_phrases, i) ==
    IF i > Len(generated) THEN selected_wrong
    ELSE LET phrase == generated[i]
             take   == IsNewPhrase(phrase, used_phrases)
             sel    == IF take THEN Append(selected_wrong, Answer(phrase, <<>>, FALSE))
                       ELSE selected_wrong
             used   == IF take THEN used_phrases \cup {Strip(Lower(phrase))}
                       ELSE used_phrases
         IN  IF Len(sel) >= 2 THEN sel
             ELSE GeneratedWrong(generated, sel, used, i + 1)

\* the multiple_choice_multi branch: corrects + distractors before the shuffle
MultiChoiceOptions(ps, response) ==
    LET num_correct == IF Len(ps) < 2 THEN Len(ps) ELSE 2
        corrects    == [i \in 1..num_correct |-> Answer(ps[i][1], ps[i][2], TRUE)]
        used0       == {Strip(Lower(ps[i][1])) : i \in 1..num_correct}
        from_ctx    == ContextWrong(SubSeq(ps, num_correct + 1, Len(ps)), <<>>, used0, 1)
        needed      == 2 - Len(from_ctx.selected_wrong)
        sample_en   == IF corrects # <<>> THEN corrects[1].text_en ELSE <<>>
        distractors ==
            IF Len(from_ctx.selected_wrong) < 2 /\ sample_en # <<>>
                  /\ response.kind # "raise"
            THEN GeneratedWrong(Take(NonBlankLines(response.text), needed),
                                from_ctx.selected_wrong, from_ctx.used_phrases, 1)
            ELSE from_ctx.selected_wrong
    IN  corrects \o distractors

MultiChoiceDrafts(ps, en_ml_pair, responses) ==
    {Draft("multiple_choice_multi", "which_appear", <<>>, shuffled, en_ml_pair) :
        shuffled \in UNION {Shuffles(MultiChoiceOptions(ps, response)) :
                               response \in responses}}

\* the lower-cased words of the model's vocabulary that have "hello", "hi",
\* "namaste" or "namaskaram" as a substring
GreetingTokens == {"hello", "hi", "this", "namaste", "namaskaram"}

\* the test taking the listed words as whole words of the line
is_greeting_whole_word(en_choice) ==
    LET low == Lower(en_choice)
    IN  \E i \in DOMAIN low : low[i] \in {"hello", "hi", "namaste", "namaskaram"}

\* any(word in en_choice.lower() for word in ["hello", "hi", "good morning",
\* "good evening", "namaste", "namaskaram"])
is_greeting(en_choice) ==
    LET low == Lower(en_choice)
    IN  \/ \E i \in DOMAIN low : low[i] \in GreetingTokens
        \/ \E i \in 1..(Len(low) - 1) :
              low[i] = "good" /\ low[i + 1] \in {"morning", "evening"}

\* the true_false branch: en_choice is a fresh random.choice(pairs)[0]
TrueFalseDrafts(ps, en_ml_pair) ==
    {Draft("true_false", "is_greeting", en_choice,
           <<Answer(<<"True">>, <<"Sheriyaanu">>, is_greeting(en_choice)),
             Answer(<<"False">>, <<"Thettaanu">>, ~is_greeting(en_choice))>>,
           en_ml_pair) :
        en_choice \in IF ps = <<>> THEN {<<>>} ELSE {ps[i][1] : i \in DOMAIN ps}}

\* a draw that can also give the index before a
RandIntFromBelow(a, b) == (a - 1)..b

\* random.randint(a, b)
RandInt(a, b) == a..b

\* the blank from a line of 2 words on
UsesBlankFromTwo(words) == Len(words) >= 2

\* len(words) >= 4
UsesBlank(words) == Len(words) >= 4

\* the translate prompt and its single answer, under the question type given
TranslateDraft(qtype, en_ml_pair) ==
    Draft(qtype, "translate", en_ml_pair[1],
          <<Answer(en_ml_pair[2], en_ml_pair[2], TRUE)>>, en_ml_pair)

\* the text_input branch; blank_idx counts from 0
TextInputDrafts(ps, en_ml_pair) ==
    LET words == Split(en_ml_pair[1])
    IN  IF UsesBlank(words)
        THEN IF RandInt(1, Len(words) - 2) = {}
             THEN {RaisedDraft("text_input", "ValueError")}
             ELSE {Draft("text_input", "fill_blank",
                         SubSeq(words, 1, blank_idx) \o <<"____">>
                             \o SubSeq(words, blank_idx + 2, Len(words)),
                         <<Answer(<<words[blank_idx + 1]>>, <<>>, TRUE)>>,
                         en_ml_pair) :
                      blank_idx \in RandInt(1, Len(words) - 2)}
        ELSE {TranslateDraft("text_input", en_ml_pair)}

\* the index of the first pair whose source line has at least 3 words, or 0
RECURSIVE FirstLongIndex(_, _)
FirstLongIndex(ps, i) ==
    IF i > Len(ps) THEN 0
    ELSE IF Len(Split(ps[i][1])) >= 3 THEN i
    ELSE FirstLongIndex(ps, i + 1)

\* sentence_to_use after the chunks are made: the fallback replaces it by
\* the line it took the words of
SentenceUsed(sentence_to_use, chunk_size, ps) ==
    LET words == Split(sentence_to_use)
    IN  IF Len(words) >= chunk_size * 2 \/ Len(words) >= 3 THEN sentence_to_use
        ELSE IF FirstLongIndex(ps, 1) # 0 THEN ps[FirstLongIndex(ps, 1)][1]
        ELSE sentence_to_use

\* ml of the first pair whose en is sentence_to_use, or None
RECURSIVE MlSentence(_, _, _)
MlSentence(ps, sentence_to_use, i) ==
    IF i > Len(ps) THEN <<>>
    ELSE IF ps[i][1] = sentence_to_use THEN ps[i][2]
    ELSE MlSentence(ps, sentence_to_use, i + 1)

\* the Malayalam line cut in as many chunks, or as many empty texts
MlChunks(ml_sentence, n) ==
    LET ml_words      == Split(ml_sentence)
        chunk_size_ml == Len(ml_words) \div n
    IN  IF ml_sentence # <<>> /\ Len(ml_words) >= n
        THEN [i \in 1..n |->
                SubSeq(ml_words, (i - 1) * chunk_size_ml + 1,
                       IF i < n THEN i * chunk_size_ml ELSE Len(ml_words))]
        ELSE [i \in 1..n |-> <<>>]

\* while shuffled == correct_order and attempts < 10: random.shuffle(shuffled)
\* the loop ends with any arrangement: another one as soon as a shuffle gives
\* it, the correct order itself when the 10 shuffles all gave it back
ShuffledOrders(correct_order) == Shuffles(correct_order)

\* the answers of an ordering question for the presented arrangement
OrderingAnswers(shuffled, correct_order, ml_chunks) ==
    [i \in DOMAIN shuffled |->
        OrderedAnswer(shuffled[i],
                      ml_chunks[IndexOf(correct_order, shuffled[i]) + 1],
                      IndexOf(correct_order, shuffled[i]))]

\* the ordering branch: sentence_to_use is a fresh random.choice(pairs)[0]
OrderingQuestionDrafts(ps, en_ml_pair, level) ==
    UNION {
        LET chunks == OrderingChunks(sentence_to_use, chunk_size, ps)
            used   == SentenceUsed(sentence_to_use, chunk_size, ps)
        IN  IF Len(chunks) < 2
            THEN {TranslateDraft("ordering", en_ml_pair)}
            ELSE {QuestionDraft("ordering", "arrange", <<>>,
                        OrderingAnswers(shuffled, chunks,
                                        MlChunks(MlSentence(ps, used, 1), Len(chunks))),
                        en_ml_pair, chunks) :
                     shuffled \in ShuffledOrders(chunks)} :
        sentence_to_use \in IF ps = <<>> THEN {en_ml_pair[1]}
                            ELSE {ps[i][1] : i \in DOMAIN ps},
        chunk_size \in ChunkSizes(level)}

\* lines 182-425 for the plan entry qtype and the kept pair en_ml_pair: the
\* questions the pass can append when generate_conversation answers the
\* requests for wrong answers by one of responses
DraftsFor(ps, level, qtype, responses, en_ml_pair) ==
    IF qtype = "multiple_choice_single"
    THEN SingleChoiceDrafts(ps, en_ml_pair, responses)
    ELSE IF qtype = "multiple_choice_multi"
    THEN MultiChoiceDrafts(ps, en_ml_pair, responses)
    ELSE IF qtype = "true_false" THEN TrueFalseDrafts(ps, en_ml_pair)
    ELSE IF qtype = "text_input" THEN TextInputDrafts(ps, en_ml_pair)
    ELSE OrderingQuestionDrafts(ps, en_ml_pair, level)

\* the questions one pass of the loop can append for the plan entry qtype,
\* whichever pair the retry loop kept
Drafts(ps, level, qtype, responses) ==
    UNION {DraftsFor(ps, level, qtype, responses, en_ml_pair) :
              en_ml_pair \in PairChoices(ps)}

\* the contexts the synthesizer is given: an empty one; one with a line of
\* repeated words; one of one-word lines; one of four lines, the first of
\* four words; one whose two lines are the same two-word line; one whose
\* third line is the first in another case
NoPairs == <<>>

RepeatedWordPairs ==
    << << <<"no", "no", "way">>, <<"illa">> >>,
       << <<"come", "here">>, <<"vaa">> >> >>

OneWordPairs ==
    << << <<"Hello">>, <<"namaskaram">> >>,
       << <<"Bye">>, <<"vida">> >> >>

FourLinePairs ==
    << << <<"how", "are", "you", "today">>, <<"sukhamano", "innu">> >>,
       << <<"this", "is", "fine">>, <<"ithu", "kollam">> >>,
       << <<"see", "you">>, <<"kaanam">> >>,
       << <<"Bye">>, <<"vida">> >> >>

SameLinePairs ==
    << << <<"bye", "bye">>, <<"vida">> >>,
       << <<"bye", "bye">>, <<"vida">> >> >>

OtherCasePairs ==
    << << <<"Hello">>, <<"namaskaram">> >>,
       << <<"see", "you">>, <<"kaanam">> >>,
       << <<"hello">>, <<"hai">> >>,
       << <<"bye">>, <<"vida">> >> >>

SynthContexts ==
    {NoPairs, RepeatedWordPairs, OneWordPairs, FourLinePairs, SameLinePairs,
     OtherCasePairs}

\* the contexts of the calls followed through their 12 passes, and what the
\* requests for wrong answers meet during them: a failure or a text
SynthCallContexts == {NoPairs, OneWordPairs, RepeatedWordPairs, FourLinePairs}

CallResponses ==
    {[kind |-> "raise", text |-> <<>>],
     [kind |-> "text", text |-> << <<"illa">>, <<WS, "w1">>, <<>>, <<"w1">>, <<"vida">> >>]}

NoQuestion ==
    [kind |-> "none", qtype |-> "none", prompt |-> [kind |-> "none", text |-> <<>>],
     answers |-> <<>>, en_ml_pair |-> << <<>>, <<>> >>, correct_order |-> <<>>]

(* One pass of the loop body on drawn inputs *)

InitDraft ==
    /\ MainAtRest /\ DedupAtRest
    /\ parse = NoParse /\ client = NoClient /\ synth = NoSynth
    /\ loop = NoLoop /\ cinema = NoCinema
    /\ \E ps \in SynthContexts, level \in {Levels[i] : i \in DOMAIN Levels},
          qtype \in QuestionTypes :
          draft = [pc |-> "pass", pairs |-> ps, level |-> level, qtype |-> qtype,
                   q |-> NoQuestion]

\* lines 169-425 for one plan entry
DraftPass ==
    /\ draft.pc = "pass"
    /\ \E d \in Drafts(draft.pairs, draft.level, draft.qtype, WrongResponses) :
          draft' = [draft EXCEPT !.pc = IF d.kind = "raise" THEN "raised" ELSE "appended",
                                 !.q = d]
    /\ UNCHANGED <<storeVars, m, h, dedupVars, parse, client, synth, loop, cinema>>

NextDraft == DraftPass

SpecDraft == InitDraft /\ [][NextDraft]_vars

(* One call of build_questions_for_context *)

InitSynth ==
    /\ MainAtRest /\ DedupAtRest
    /\ parse = NoParse /\ client = NoClient /\ draft = NoDraft
    /\ loop = NoLoop /\ cinema = NoCinema
    /\ \E ps \in SynthCallContexts, level \in {Levels[i] : i \in DOMAIN Levels} :
          synth = [pc |-> "loop", pairs |-> ps, level |-> level,
                   plan_left |-> question_plan,
                   questions |-> [t \in QuestionTypes |-> 0],
                   idx |-> 0, last_answers |-> 0]

\* one pass of for idx, qtype in enumerate(question_plan): the shuffle of
\* line 164 lets every entry not yet taken be the next one; questions is kept
\* as the number of appended questions of each type
SynthPass ==
    /\ synth.pc = "loop"
    /\ \E qtype \in QuestionTypes :
         /\ synth.plan_left[qtype] > 0
         /\ \E d \in Drafts(synth.pairs, synth.level, qtype, CallResponses) :
              synth' =
                IF d.kind = "raise"
                THEN [synth EXCEPT !.pc = "raised"]
                ELSE [synth EXCEPT !.plan_left[qtype] = @ - 1,
                                   !.questions[d.qtype] = @ + 1,
                                   !.idx = @ + 1,
                                   !.last_answers = Len(d.answers)]
    /\ UNCHANGED <<storeVars, m, h, dedupVars, parse, client, draft, loop, cinema>>

\* return questions
SynthReturn ==
    /\ synth.pc = "loop"
    /\ \A qtype \in QuestionTypes : synth.plan_left[qtype] = 0
    /\ synth' = [synth EXCEPT !.pc = "returned"]
    /\ UNCHANGED <<storeVars, m, h, dedupVars, parse, client, draft, loop, cinema>>

NextSynth == SynthPass \/ SynthReturn

SpecSynth == InitSynth /\ [][NextSynth]_vars

(* The loop of build_questions_for_context with its retry loop on          *)
(* used_questions                                                          *)

\* max_attempts of the retry loop
max_attempts == 5

\* the length of the slice en_ml_pair[0][:30]
KeyPrefixLen == 30

\* the characters of the words of LoopContexts
Spelling ==
    [w \in {"Hello", "Bye", "congratulations"} |->
        IF w = "Hello" THEN <<"H", "e", "l", "l", "o">>
        ELSE IF w = "Bye" THEN <<"B", "y", "e">>
        ELSE <<"c", "o", "n", "g", "r", "a", "t", "u", "l", "a", "t", "i", "o", "n", "s">>]

\* a line of words as the string of its characters
RECURSIVE Chars(_)
Chars(line) ==
    IF line = <<>> THEN <<>>
    ELSE IF Len(line) = 1 THEN Spelling[line[1]]
    ELSE Spelling[line[1]] \o <<" ">> \o Chars(Tail(line))

\* question_key = (qtype, en_ml_pair[0][:30], context_level)
question_key(qtype, en_ml_pair, context_level) ==
    <<qtype, Take(Chars(en_ml_pair[1]), KeyPrefixLen), context_level>>

\* question_key not in used_questions or attempt == max_attempts - 1
AcceptsKey(key, used_questions, attempt) ==
    key \notin used_questions \/ attempt = max_attempts - 1

\* a context of two lines longer than 30 characters that differ only after
\* the 30th; the loop is followed on it, on the empty context and on the
\* one of one-word lines
LongLinePairs ==
    << << <<"congratulations", "congratulations", "Hello">>, <<"namaskaram">> >>,
       << <<"congratulations", "congratulations", "Bye">>, <<"vida">> >> >>

InitLoop ==
    /\ MainAtRest /\ DedupAtRest
    /\ parse = NoParse /\ client = NoClient /\ synth = NoSynth /\ draft = NoDraft
    /\ cinema = NoCinema
    /\ \E ps \in {NoPairs, OneWordPairs, LongLinePairs}, level \in {Levels[1]} :
          loop = [NoLoop EXCEPT !.pc = "next", !.pairs = ps, !.level = level,
                                !.plan_left = question_plan]

\* for idx, qtype in enumerate(question_plan): the shuffle of line 164 lets
\* every entry not yet taken be the next one
LoopEntry ==
    /\ loop.pc = "next"
    /\ \E qtype \in QuestionTypes :
         /\ loop.plan_left[qtype] > 0
         /\ loop' = [loop EXCEPT !.pc = "try", !.qtype = qtype, !.attempt = 0]
    /\ UNCHANGED <<storeVars, m, h, dedupVars, parse, client, synth, draft, cinema>>

\* one round of for attempt in range(max_attempts), lines 172-180
LoopTry ==
    /\ loop.pc = "try"
    /\ loop.attempt < max_attempts
    /\ \E en_ml_pair \in PairChoices(loop.pairs) :
          LET key == question_key(loop.qtype, en_ml_pair, loop.level)
          IN  loop' =
                IF AcceptsKey(key, loop.used_questions, loop.attempt)
                THEN [loop EXCEPT !.pc = "build", !.en_ml_pair = en_ml_pair,
                                  !.used_questions = @ \cup {key}]
                ELSE [loop EXCEPT !.en_ml_pair = en_ml_pair,
                                  !.attempt = @ + 1,
                                  !.pc = IF loop.attempt + 1 < max_attempts
                                         THEN "try" ELSE "build"]
    /\ UNCHANGED <<storeVars, m, h, dedupVars, parse, client, synth, draft, cinema>>

\* lines 182-425 with the pair the retry loop kept: the question is appended
\* (the requests for wrong answers fail, which leaves the prompt as it is);
\* seen holds the type and prompt of every appended question.  qtype, attempt
\* and en_ml_pair are assigned anew before the next pass reads them
LoopBuild ==
    /\ loop.pc = "build"
    /\ \E d \in DraftsFor(loop.pairs, loop.level, loop.qtype,
                          {[kind |-> "raise", text |-> <<>>]}, loop.en_ml_pair) :
          loop' =
            IF d.kind = "raise" THEN [loop EXCEPT !.pc = "raised"]
            ELSE [loop EXCEPT
                    !.pc = "next",
                    !.plan_left[loop.qtype] = @ - 1,
                    !.seen = @ \cup {<<d.qtype, d.prompt>>},
                    !.qtype = "none", !.attempt = 0,
                    !.en_ml_pair = NoLoop.en_ml_pair]
    /\ UNCHANGED <<storeVars, m, h, dedupVars, parse, client, synth, draft, cinema>>

\* return questions
LoopReturn ==
    /\ loop.pc = "next"
    /\ \A qtype \in QuestionTypes : loop.plan_left[qtype] = 0
    /\ loop' = [loop EXCEPT !.pc = "returned"]
    /\ UNCHANGED <<storeVars, m, h, dedupVars, parse, client, synth, draft, cinema>>

NextLoop == LoopEntry \/ LoopTry \/ LoopBuild \/ LoopReturn

SpecLoop == InitLoop /\ [][NextLoop]_vars

(* Calls of build_cinema_dialogue_prompt *)

\* calls followed in one behaviour
MaxPromptCalls == 3

\* len(variety_prompts)
NumVarietyPrompts == 5

\* what the prompt is made of: num_lines, the description of the level and
\* the variety type picked by context_number
build_cinema_dialogue_prompt(level, context_number, num_lines) ==
    [num_lines |-> num_lines, difficulty_desc |-> level,
     variety_type |-> context_number % NumVarietyPrompts]

InitPrompt ==
    /\ MainAtRest /\ DedupAtRest
    /\ parse = NoParse /\ client = NoClient /\ synth = NoSynth /\ draft = NoDraft
    /\ loop = NoLoop
    /\ cinema = [NoCinema EXCEPT !.pc = "ready"]

\* one call, num_lines being random.choice([2, 3]); requested keeps the
\* level and num_lines of every call made
PromptCall ==
    /\ cinema.pc \in {"ready", "returned"}
    /\ Len(cinema.requested) < MaxPromptCalls
    /\ \E i \in DOMAIN Levels, context_number \in 0..(NumLevels - 1),
          num_lines \in {2, 3} :
          LET p == build_cinema_dialogue_prompt(Levels[i], context_number, num_lines)
          IN  cinema' = [pc |-> "returned", level |-> p.difficulty_desc,
                         context_number |-> context_number,
                         num_lines |-> p.num_lines,
                         variety_type |-> p.variety_type,
                         requested |-> Append(cinema.requested,
                                              <<i, p.num_lines>>)]
    /\ UNCHANGED <<storeVars, m, h, dedupVars, parse, client, synth, draft, loop>>

NextPrompt == PromptCall

SpecPrompt == InitPrompt /\ [][NextPrompt]_vars

-----------------------------------------------------------------------------
(* Properties *)

ContextsOf(l)  == {c \in DOMAIN contexts : contexts[c].lesson_id = l}
QuestionsOf(l) == {q \in DOMAIN questions : questions[q].lesson_id = l}
QuestionsOfContext(c) == {q \in DOMAIN questions : questions[q].meme_context_id = c}

\* the completeness predicate as the specification states it
LessonComplete(l) ==
    Cardinality(ContextsOf(l)) >= 3 /\ Cardinality(QuestionsOf(l)) >= 36

\* the running process is inside the body of the lesson loop for lesson l
Processing(l) ==
    m.pc \in {"level", "gen", "ctx", "question", "answers", "summary"} /\ m.lesson = l

\* everything stored for lesson l
LessonData(l) ==
    <<[c \in ContextsOf(l) |-> contexts[c]],
      [q \in QuestionsOf(l) |-> questions[q]],
      answers \cap QuestionsOf(l),
      lessons[l].summary>>

LevelIndex(level) == CHOOSE i \in DOMAIN Levels : Levels[i] = level

\* C1: a second run of main, after a first run from the empty store that was
\* not killed, and asking the generator nothing it was asked in the first run,
\* creates no row.
C1_SecondRunCreatesNothing ==
    (h.run_no = 2 /\ h.interrupts = 0 /\ h.same_inputs) => ~h.run_created

\* C2: a run that follows a killed run, and whose generator returns only
\* well-formed contexts that are not flagged, does not end by an exception of
\* the question table, and when it ends every lesson is complete.
C2_ResumeCompletes ==
    (h.run_no >= 2 /\ h.interrupts >= 1 /\ h.gen_good) =>
        /\ m.abort_cause # "uq_question_order"
        /\ (m.pc = "done" => \A l \in DOMAIN lessons : LessonComplete(l))

\* C3: in every state of the store (a process can be killed after any commit)
\* each stored context has its 12 questions and each stored question has its
\* answers.
C3_ContextWithItsQuestions ==
    /\ \A c \in DOMAIN contexts : Cardinality(QuestionsOfContext(c)) = 12
    /\ \A q \in DOMAIN questions : q \in answers

\* C4: a complete lesson stays complete; a run that is not inside the lesson
\* when it is complete never enters it and changes nothing stored for it.
C4_CompleteIsTerminal ==
    [][\A l \in DOMAIN lessons :
          LessonComplete(l) =>
              /\ LessonComplete(l)'
              /\ ~Processing(l) => (~Processing(l)' /\ LessonData(l)' = LessonData(l))]_vars

\* a later run has passed over the complete lesson
C4_Witness ==
    /\ h.run_no >= 2
    /\ m.pc = "lesson" /\ m.lesson_idx = 1 /\ m.lesson = 0
    /\ \E l \in DOMAIN lessons : LessonComplete(l)

C6_ConflictNotPropagated == m.abort_cause # "uq_question_order"

\* C7: question and context rows are never changed once stored, and a
\* question that is stored takes, among the questions of its lesson, an
\* order_index that no other has and that lies after those of the contexts
\* of earlier levels and before those of the contexts of later levels: so in
\* every store the order_index values of a lesson are pairwise distinct and
\* follow the walk order.
C7_OrderIndexFollowsWalk ==
    [][/\ SubSeq(questions', 1, Len(questions)) = questions
       /\ SubSeq(contexts', 1, Len(contexts)) = contexts
       /\ \A q \in (DOMAIN questions') \ (DOMAIN questions) :
            \A p \in DOMAIN questions :
              questions[p].lesson_id = questions'[q].lesson_id =>
                /\ questions[p].order_index # questions'[q].order_index
                /\ LevelIndex(contexts[questions[p].meme_context_id].level)
                      < LevelIndex(contexts'[questions'[q].meme_context_id].level)
                   => questions[p].order_index < questions'[q].order_index
                /\ LevelIndex(contexts[questions[p].meme_context_id].level)
                      > LevelIndex(contexts'[questions'[q].meme_context_id].level)
                   => questions[p].order_index > questions'[q].order_index]_vars

\* a resumed lesson: the run after a killed run stores a question of a
\* context while another context of the lesson has questions
C7_Witness ==
    /\ h.run_no >= 2 /\ h.interrupts >= 1
    /\ m.pc = "answers"
    /\ \E q \in QuestionsOf(m.lesson) : questions[q].meme_context_id # m.mctx

\* the fingerprint of a context: its lower-cased, trimmed source lines
Fingerprint(ps) == {Strip(Lower(ps[i][1])) : i \in DOMAIN ps}

\* C8: the candidate is flagged exactly when some accepted context F has
\* |candidate_lines \cap F| > 0.3 * |candidate_lines|.
C8_FlaggedIffOverlap ==
    d_pc = "checked" =>
        (d_result <=>
            \E u \in d_used :
                10 * Cardinality(Fingerprint(d_pairs) \cap Fingerprint(u))
                    > 3 * Cardinality(Fingerprint(d_pairs)))

C8_Witness ==
    /\ d_pc = "checked" /\ d_result
    /\ Cardinality(d_used) = 2
    /\ \E u \in d_used :
          10 * Cardinality(Fingerprint(d_pairs) \cap Fingerprint(u))
              <= 3 * Cardinality(Fingerprint(d_pairs))

\* the example of C9: F = {"hello", "how are you"}, candidate lines
\* {"hello", "what's up", "see you"}
C9_Case ==
    /\ d_pc = "checked"
    /\ Len(d_pairs) = 3
    /\ Fingerprint(d_pairs) = {<<"hello">>, <<"what's", "up">>, <<"see", "you">>}
    /\ d_used = {<<PairOf(<<"hello">>), PairOf(<<"how", "are", "you">>)>>}

\* C9 as stated: the candidate of the example is not flagged.
C9_ExampleNotFlagged == C9_Case => ~d_result

\* C9 amended: the candidate of the example is flagged (overlap 1 > 0.3 * 3).
C9_ExampleFlagged == C9_Case => d_result

C9_Witness == C9_Case /\ d_result

\* C10: the loop makes at most 5 attempts; after 5 attempts that were all
\* flagged the loop has ended, the 5th context is in used_contexts and is
\* the one that is stored for the level.
C10_ForceAccept ==
    /\ m.pc = "gen" => m.attempt < 5
    /\ h.dup_count + h.fail_count <= 5
    /\ h.dup_count = 5 =>
          /\ m.pc \in {"ctx", "question", "answers", "level", "aborted"}
          /\ m.pc = "ctx" => (Len(m.pairs) >= 2 /\ m.pairs \in m.used_contexts)
          /\ m.pc \in {"question", "answers"} =>
                /\ m.pairs \in m.used_contexts
                /\ contexts[m.mctx].pairs = m.pairs
                /\ contexts[m.mctx].level = Levels[m.context_idx + 1]
          /\ m.pc = "level" =>
                \E c \in ContextsOf(m.lesson) : contexts[c].level = Levels[m.context_idx]

C10_Witness == h.dup_count = 5 /\ m.pc = "question"

\* C11: every stored context has at least 2 pairs.
C11_PersistedHasTwoPairs == \A c \in DOMAIN contexts : Len(contexts[c].pairs) >= 2

\* a context stored for a level after an attempt for that level had failed
C11_Witness == m.pc = "question" /\ h.fail_count >= 1 /\ contexts # <<>>

\* the positions of a line that hold a word
WordPositions(line) == {i \in DOMAIN line : line[i] # WS}

HasWord(line) == WordPositions(line) # {}

\* a line from its first word to its last
TrimOf(line) ==
    LET idx == WordPositions(line)
        lo  == CHOOSE i \in idx : \A j \in idx : i <= j
        hi  == CHOOSE i \in idx : \A j \in idx : i >= j
    IN  IF idx = {} THEN <<>> ELSE SubSeq(line, lo, hi)

\* C12: the parser returns floor(n/2) pairs for a text of n non-blank lines,
\* the i-th pair being the trimmed non-blank lines 2i-1 and 2i (counted from
\* 1), both non-empty; blank lines and a trailing unpaired line are dropped.
C12_ParserPairsNonBlankLines ==
    parse.pc = "returned" =>
        LET nb == SelectSeq(parse.raw_text, HasWord)
        IN  /\ Len(parse.pairs) = Len(nb) \div 2
            /\ \A i \in DOMAIN parse.pairs :
                  /\ parse.pairs[i] = <<TrimOf(nb[2 * i - 1]), TrimOf(nb[2 * i])>>
                  /\ parse.pairs[i][1] # <<>> /\ parse.pairs[i][2] # <<>>

\* an odd number of non-blank lines, a blank line among them, a padded line
\* in a pair
C12_Witness ==
    /\ parse.pc = "returned"
    /\ Len(SelectSeq(parse.raw_text, HasWord)) = 3
    /\ Len(parse.raw_text) = 4
    /\ parse.raw_text[2] = <<WS>>
    /\ parse.raw_text[1] = <<WS, "Hello", WS>>
    /\ Len(parse.pairs) = 1

\* C13: a call makes at most max_retries requests and every pass of the loop
\* moves it on; while every response has been 429 the sleeps made are
\* base_wait * 2^a after the a-th request (a from 0), the call has not
\* returned, and when it ends it ends by the RuntimeError after exactly
\* max_retries requests.
C13_RateLimitedBackoff ==
    /\ [](/\ client.requests <= client.max_retries
          /\ client.all429 =>
                /\ client.sleeps =
                      [a \in 1..client.requests |-> client.base_wait * 2 ^ (a - 1)]
                /\ client.pc # "returned"
                /\ client.pc = "raised" =>
                      /\ client.failure = "RuntimeError"
                      /\ client.requests = client.max_retries)
    /\ [][client.pc = "loop" =>
            \/ client'.pc # "loop"
            \/ client'.attempt = client.attempt + 1]_vars

\* three rate-limited requests and then the RuntimeError
C13_Witness ==
    /\ client.pc = "raised" /\ client.all429
    /\ client.max_retries = 3 /\ client.base_wait = 1800
    /\ client.sleeps = <<1800, 3600, 7200>>

\* C14 as stated: a failure other than rate limiting is re-raised only after
\* max_retries requests have been made.
C14_ReraisedAfterRetries ==
    (client.pc = "raised" /\ client.failure \in {"500", "timeout"}) =>
        client.requests = client.max_retries

\* C14 amended: a response that is a failure other than rate limiting ends
\* the call at once by that failure: no sleep follows it and no further
\* request is made.
C14_ReraisedAtOnce ==
    client.last \in {"500", "timeout"} =>
        /\ client.pc = "raised"
        /\ client.failure = client.last
        /\ Len(client.sleeps) = client.requests - 1

\* the first of three allowed requests fails and the call ends
C14_Witness ==
    /\ client.pc = "raised" /\ client.failure = "500"
    /\ client.max_retries = 3 /\ client.requests = 1

\* C15: a call on a non-empty context never ends by an exception, and when
\* it returns it has appended 12 questions: 3 single-choice, 2 multi-choice,
\* 2 true/false, 2 text-input and 3 ordering ones.
C15_TwelveByPlan ==
    synth.pairs # <<>> =>
        /\ synth.pc # "raised"
        /\ synth.pc = "returned" =>
              /\ synth.idx = 12
              /\ synth.questions["multiple_choice_single"] = 3
              /\ synth.questions["multiple_choice_multi"] = 2
              /\ synth.questions["true_false"] = 2
              /\ synth.questions["text_input"] = 2
              /\ synth.questions["ordering"] = 3

\* a call on a context of one-word lines, which needs generated wrong
\* answers and has no line to cut in chunks, has returned
C15_Witness ==
    /\ synth.pc = "returned"
    /\ synth.pairs = OneWordPairs
    /\ synth.level = "advanced"

\* C16: a call on an empty context appends no question and does not return
\* a list of questions.
C16_EmptySignalsEmptyContext ==
    (synth.pc \in {"loop", "returned", "raised"} /\ synth.pairs = <<>>) =>
        /\ synth.idx = 0
        /\ synth.pc # "returned"

\* a question of the ordering branch that presents chunks to arrange
ArrangeQuestion ==
    /\ draft.pc = "appended"
    /\ draft.q.qtype = "ordering"
    /\ draft.q.prompt.kind = "arrange"

\* C17: the order_index values of the n answers of an ordering question are
\* 0..n-1, each used once, and the answers taken in the order of their
\* order_index are the chunk sequence of the line.
C17_OrderIndexPermutation ==
    ArrangeQuestion =>
        LET a == draft.q.answers
            n == Len(a)
        IN  /\ {a[i].order_index : i \in 1..n} = 0..(n - 1)
            /\ \A i, j \in 1..n : i # j => a[i].order_index # a[j].order_index
            /\ \A i \in 1..n :
                  a[i].text_en = draft.q.correct_order[a[i].order_index + 1]

\* C18: the answers of an ordering question, in the order of the answer
\* list, are an arrangement of the chunks other than the correct order.
C18_PresentedOrderDiffers ==
    ArrangeQuestion =>
        [i \in DOMAIN draft.q.answers |-> draft.q.answers[i].text_en]
            # draft.q.correct_order

\* C19: a question appended with the type ordering has at least 2 answers,
\* each with an order_index of its own.
C19_NoMalformedOrdering ==
    (draft.pc = "appended" /\ draft.q.qtype = "ordering") =>
        /\ Len(draft.q.answers) >= 2
        /\ \A i \in DOMAIN draft.q.answers : draft.q.answers[i].keyed

\* C20: a single-choice question has exactly one answer marked correct; the
\* prompt quotes the source line of the chosen pair, a pair of the context,
\* and the correct answer is its target line; the other answers are at most
\* 3, pairwise distinct and different from the correct answer.
C20_SingleChoiceAnswers ==
    (draft.pc = "appended" /\ draft.q.qtype = "multiple_choice_single") =>
        LET a       == draft.q.answers
            correct == {i \in DOMAIN a : a[i].is_correct}
            wrong   == {i \in DOMAIN a : ~a[i].is_correct}
        IN  /\ Cardinality(correct) = 1
            /\ draft.q.prompt.text = draft.q.en_ml_pair[1]
            /\ \A i \in correct : a[i].text_en = draft.q.en_ml_pair[2]
            /\ draft.pairs # <<>> =>
                  \E k \in DOMAIN draft.pairs : draft.pairs[k] = draft.q.en_ml_pair
            /\ Cardinality(wrong) <= 3
            /\ \A i, j \in wrong : i # j => a[i].text_en # a[j].text_en
            /\ \A i \in wrong : \A j \in correct : a[i].text_en # a[j].text_en

\* the generated list offered the correct answer "illa" itself: it was left
\* out and the question has the context's other line and one generated line
C20_Witness ==
    /\ draft.pc = "appended" /\ draft.q.qtype = "multiple_choice_single"
    /\ draft.pairs = RepeatedWordPairs
    /\ draft.q.en_ml_pair[2] = <<"illa">>
    /\ Len(draft.q.answers) = 3

\* a phrase as the comparison of the claim reads it: trimmed, in lower case
C21_Norm(line) == TrimOf(Lower(line))

\* C21: a multi-choice question built from a context of at least 2 lines has
\* exactly 2 answers marked correct, each a line of the context with its
\* target line, and at most 2 answers marked incorrect, none of which reads,
\* trimmed and in lower case, as a correct answer or as another incorrect one.
C21_MultiChoiceAnswers ==
    (draft.pc = "appended" /\ draft.q.qtype = "multiple_choice_multi"
        /\ Len(draft.pairs) >= 2) =>
        LET a       == draft.q.answers
            correct == {i \in DOMAIN a : a[i].is_correct}
            wrong   == {i \in DOMAIN a : ~a[i].is_correct}
        IN  /\ Cardinality(correct) = 2
            /\ \A i \in correct :
                  \E k \in DOMAIN draft.pairs :
                      draft.pairs[k] = <<a[i].text_en, a[i].text_ml>>
            /\ Cardinality(wrong) <= 2
            /\ \A i \in wrong : \A j \in DOMAIN a :
                  i # j => C21_Norm(a[i].text_en) # C21_Norm(a[j].text_en)

\* the generated list offers "Hello", a correct answer, and "w2": only "w2"
\* is among the answers
C21_Witness ==
    /\ draft.pc = "appended" /\ draft.q.qtype = "multiple_choice_multi"
    /\ draft.pairs = OneWordPairs
    /\ Len(draft.q.answers) = 3
    /\ \E i \in DOMAIN draft.q.answers : draft.q.answers[i].text_en = <<"w2">>

\* the source lines of SynthContexts in which "hello", "hi", "good morning",
\* "good evening", "namaste" or "namaskaram" occurs, in any case
C22_GreetingLines == {<<"Hello">>, <<"hello">>, <<"this", "is", "fine">>}

\* C22: a true/false question has exactly the two answers True and False,
\* exactly one of them marked correct, and True is the one marked correct
\* exactly when the greeting predicate holds for the tested line: the marking
\* is a function of the line's text.
C22_TrueFalseByPredicate ==
    (draft.pc = "appended" /\ draft.q.qtype = "true_false") =>
        LET a == draft.q.answers
        IN  /\ Len(a) = 2
            /\ {a[i].text_en : i \in DOMAIN a} = {<<"True">>, <<"False">>}
            /\ Cardinality({i \in DOMAIN a : a[i].is_correct}) = 1
            /\ \A i \in DOMAIN a :
                  a[i].text_en = <<"True">> =>
                      (a[i].is_correct <=> draft.q.prompt.text \in C22_GreetingLines)

\* the tested line "this is fine" holds "hi": True is marked correct
C22_Witness ==
    /\ draft.pc = "appended" /\ draft.q.qtype = "true_false"
    /\ draft.q.prompt.text = <<"this", "is", "fine">>
    /\ \E i \in DOMAIN draft.q.answers :
          draft.q.answers[i].text_en = <<"True">> /\ draft.q.answers[i].is_correct

\* the words of a line, in order
C23_Words(line) == SelectSeq(line, LAMBDA t : t # WS)

\* C23: a text-input question on a source line of at least 4 words shows the
\* line's words with exactly one of them, neither the first nor the last,
\* replaced by the blank; its single answer is that word, so that putting it
\* back gives the words of the line.  On a shorter line the question is the
\* translate prompt on the line and its single answer is the target line.
C23_BlankOrTranslate ==
    (draft.pc = "appended" /\ draft.q.qtype = "text_input") =>
        LET src   == draft.q.en_ml_pair[1]
            w     == C23_Words(src)
            shown == draft.q.prompt.text
            a     == draft.q.answers
        IN  /\ Len(a) = 1 /\ a[1].is_correct
            /\ IF Len(w) >= 4
               THEN /\ draft.q.prompt.kind = "fill_blank"
                    /\ Len(shown) = Len(w)
                    /\ \E p \in 2..(Len(w) - 1) :
                          /\ shown[p] = "____"
                          /\ a[1].text_en = <<w[p]>>
                          /\ [shown EXCEPT ![p] = a[1].text_en[1]] = w
                          /\ \A k \in DOMAIN w : k # p => shown[k] = w[k]
               ELSE /\ draft.q.prompt.kind = "translate"
                    /\ shown = src
                    /\ a[1].text_en = draft.q.en_ml_pair[2]

\* "how are you today" with its third word blanked
C23_Witness ==
    /\ draft.pc = "appended" /\ draft.q.qtype = "text_input"
    /\ draft.q.prompt.text = <<"how", "are", "____", "today">>
    /\ draft.q.answers[1].text_en = <<"you">>

\* C28: in a multi-choice question ("Which of these phrases appear in the
\* dialogue?") an answer is marked correct exactly when its text is a source
\* line of the context: no answer marked incorrect is a line of the context.
C28_IncorrectNotInContext ==
    (draft.pc = "appended" /\ draft.q.qtype = "multiple_choice_multi") =>
        \A i \in DOMAIN draft.q.answers :
            draft.q.answers[i].is_correct <=>
                \E k \in DOMAIN draft.pairs :
                    draft.pairs[k][1] = draft.q.answers[i].text_en

\* C24: within one call of build_questions_for_context, a question whose type
\* and prompt (hence whose key of type, prompt prefix and level) are those of
\* a question appended earlier in the call is appended only after the retry
\* loop on its line pair has run its 5 rounds; the retry loop never runs more
\* than 5 rounds.
C24_RepeatOnlyAfterRetries ==
    /\ [][(loop.pc = "build" /\ loop'.pc = "next" /\ loop'.seen = loop.seen)
             => loop.attempt = max_attempts - 1]_vars
    /\ [](loop.attempt < max_attempts)

\* C26: the number of lines build_cinema_dialogue_prompt requests is
\* determined by the level (two calls for the same level request the same
\* number), and a call for a lower level never requests more lines than a
\* call for a higher level.
C26_LinesByLevel ==
    \A i, j \in DOMAIN cinema.requested :
        /\ cinema.requested[i][1] = cinema.requested[j][1]
              => cinema.requested[i][2] = cinema.requested[j][2]
        /\ cinema.requested[i][1] < cinema.requested[j][1]
              => cinema.requested[i][2] <= cinema.requested[j][2]

\* C25: after any sequence of runs, interrupted or not, the store holds at
\* most one Section per slug, one Unit per (section, slug), one Lesson per
\* (unit, slug) and one context per (lesson, level).
C25_OneRecordPerKey ==
    /\ \A i, j \in DOMAIN sections :
          sections[i].slug = sections[j].slug => i = j
    /\ \A i, j \in DOMAIN units :
          (units[i].section_id = units[j].section_id /\ units[i].slug = units[j].slug)
              => i = j
    /\ \A i, j \in DOMAIN lessons :
          (lessons[i].unit_id = lessons[j].unit_id /\ lessons[i].slug = lessons[j].slug)
              => i = j
    /\ \A i, j \in DOMAIN contexts :
          (contexts[i].lesson_id = contexts[j].lesson_id
              /\ contexts[i].level = contexts[j].level) => i = j

\* a second run, after an interrupted one that left a context, has found the
\* section, the unit and the lesson, passed over the level that has a
\* context and stored a context for another level
C25_Witness ==
    /\ h.run_no = 2 /\ h.interrupts = 1 /\ h.run_created
    /\ m.pc = "question" /\ m.context_idx >= 1
    /\ Len(sections) = 1 /\ Len(units) = 1 /\ Len(lessons) = 1
    /\ Len(contexts) >= 2
    /\ m.all_markdown_contexts # <<>> /\ Len(m.all_markdown_contexts) < Len(contexts)

\* C27: the context that is persisted is the candidate of the attempt that
\* ended the attempt loop, not one kept from an earlier attempt (where it can
\* only have been flagged by the dedup check); when the dedup check flagged it,
\* that attempt was the 5th; and it has been added to used_contexts.
C27_FlaggedOnlyOnFinalAttempt ==
    [][(m.pc = "gen" /\ m'.pc = "ctx") =>
          /\ h'.fail_count = h.fail_count
          /\ h'.dup_count > h.dup_count => m.attempt = max_context_attempts - 1
          /\ m'.pairs \in m'.used_contexts]_vars

\* C29: a lesson with at least 3 contexts and at least 36 questions has
\* exactly one context for each of beginner, intermediate and advanced, and
\* each context of the lesson has exactly 12 questions.
C29_CompleteIsThreeByTwelve ==
    \A l \in DOMAIN lessons :
        LessonComplete(l) =>
            /\ \A i \in DOMAIN Levels :
                  Cardinality({c \in ContextsOf(l) : contexts[c].level = Levels[i]}) = 1
            /\ \A c \in ContextsOf(l) :
                  Cardinality(QuestionsOfContext(c)) = 12

\* a lesson has become complete
C29_Witness ==
    \E l \in DOMAIN lessons :
        /\ LessonComplete(l)
        /\ Cardinality(ContextsOf(l)) = 3 /\ Cardinality(QuestionsOf(l)) = 36

\* block occurs in summary as a run of consecutive entries
C30_Contains(summary, block) ==
    \E k \in 0..(Len(summary) - Len(block)) :
        SubSeq(summary, k + 1, k + Len(block)) = block

\* C30: when the process finishes a lesson, resumed from a partial state or
\* not, the lesson's summary contains the markdown block of every context
\* stored for the lesson.
C30_SummaryHoldsEveryContext ==
    [][(m.pc = "summary" /\ m'.pc = "lesson") =>
          \A c \in ContextsOf(m.lesson) :
              C30_Contains(lessons'[m.lesson].summary,
                           format_context_as_markdown(contexts[c].pairs,
                                                      contexts[c].level))]_vars

=============================================================================
